---------------------------- MODULE Spec2Model ----------------------------
(***************************************************************************)
(* Model of the workspace manager (src/src/workspace_manager_app.py): the  *)
(* capture/restore engine, its snapshot store (the saved_workspaces        *)
(* directory) and the command-line front end main().                       *)
(*                                                                         *)
(* A Python str is a sequence of tokens: a token is either a delimiter     *)
(* or blank of the text, or a maximal run of other characters (a URL, a    *)
(* number, an application name) kept as one atom.  The empty string is     *)
(* <<>>.  A Python dict is a function on its keys, a list a sequence.      *)
(***************************************************************************)
EXTENDS Integers, Sequences, FiniteSets, TLC

VARIABLES
    files,      \* saved_workspaces: file name -> text of the file
    captured,   \* file name -> workspace_data of the capture that wrote it
    pc,         \* "idle": no process; "done": a process has run its command
    cmd,        \* the command that process ran
    arg,        \* the workspace name it acted on
    existed,    \* whether the file of that name existed when it started
    exitCode,   \* its exit status
    raised,     \* the exception that ended it ("none" when none did)
    printed,    \* the engine's messages on stdout, in order
    log,        \* the control-plane commands it issued, in order
    loaded,     \* restore: the workspace_data read back from the store
    listing,    \* list: the summaries returned
    answers,    \* a capture on its own: the answers of the control plane
    snapshot,   \* a capture on its own: what its loops built
    workers     \* the menu bar shell: its worker threads, oldest first

vars == <<files, captured, pc, cmd, arg, existed, exitCode, raised, printed,
          log, loaded, listing, answers, snapshot, workers>>

----------------------------------------------------------------------------
(* Bounds of the model. *)

\* timestamps datetime.now() may return: 1..MaxTime
MaxTime == 2
\* largest live window count the control plane reports
MaxCount == 3

----------------------------------------------------------------------------
(* Python strings. *)

S(tok) == <<tok>>

Blank == {" ", "\n"}

RECURSIVE LStrip(_)
LStrip(s) ==
    IF s # <<>> /\ Head(s) \in Blank THEN LStrip(Tail(s)) ELSE s

RECURSIVE RStrip(_)
RStrip(s) ==
    IF s # <<>> /\ s[Len(s)] \in Blank
    THEN RStrip(SubSeq(s, 1, Len(s) - 1))
    ELSE s

\* str.strip()
Strip(s) == RStrip(LStrip(s))

\* str.strip(chars) for one character
RECURSIVE StripChar(_, _)
StripChar(s, c) ==
    IF s # <<>> /\ Head(s) = c THEN StripChar(Tail(s), c)
    ELSE IF s # <<>> /\ s[Len(s)] = c
         THEN StripChar(SubSeq(s, 1, Len(s) - 1), c)
         ELSE s

\* str.split(d): the pieces between the occurrences of d; never empty
RECURSIVE SplitFrom(_, _, _)
SplitFrom(s, d, piece) ==
    IF s = <<>> THEN <<piece>>
    ELSE IF Head(s) = d
         THEN <<piece>> \o SplitFrom(Tail(s), d, <<>>)
         ELSE SplitFrom(Tail(s), d, Append(piece, Head(s)))

Split(s, d) == SplitFrom(s, d, <<>>)

\* str.startswith(prefix)
StartsWith(s, prefix) ==
    Len(s) >= Len(prefix) /\ SubSeq(s, 1, Len(prefix)) = prefix

\* str.replace(old, new): the occurrences of old, left to right, not overlapping
RECURSIVE Replace(_, _, _)
Replace(s, old, new) ==
    IF s = <<>> THEN <<>>
    ELSE IF StartsWith(s, old)
         THEN new \o Replace(SubSeq(s, Len(old) + 1, Len(s)), old, new)
         ELSE <<Head(s)>> \o Replace(Tail(s), old, new)

\* str.endswith(suffix)
EndsWith(s, suffix) ==
    Len(s) >= Len(suffix)
    /\ SubSeq(s, Len(s) - Len(suffix) + 1, Len(s)) = suffix

\* dict.get(key, default)
Get(d, k, default) == IF k \in DOMAIN d THEN d[k] ELSE default

----------------------------------------------------------------------------
(* Texts whose order matters: the created stamps.  Python orders strings   *)
(* by code point, so every ISO stamp (it starts with a digit) is below     *)
(* "Unknown", and two stamps of the same shape order as their times.       *)

TimeToks == <<"2025-01-01T09:00:01", "2025-01-01T09:00:02",
              "2025-01-01T09:00:03", "2025-01-01T09:00:04">>

\* datetime.isoformat() of the t-th instant
Isoformat(t) == S(TimeToks[t])

CodePointOrder == TimeToks \o <<"Unknown">>

Rank(tok) == CHOOSE i \in DOMAIN CodePointOrder : CodePointOrder[i] = tok

\* a < b on str
RECURSIVE StrLess(_, _)
StrLess(a, b) ==
    IF b = <<>> THEN FALSE
    ELSE IF a = <<>> THEN TRUE
    ELSE IF Head(a) = Head(b) THEN StrLess(Tail(a), Tail(b))
    ELSE Rank(Head(a)) < Rank(Head(b))

----------------------------------------------------------------------------
(* JSON text.  json.dump writes, and json.load reads, a tree of tagged     *)
(* values: <<"obj", pairs>>, <<"arr", items>>, <<"str", s>>, <<"num", n>>. *)
(* A file that is not JSON at all is <<"invalid">>.                        *)

InvalidText == <<"invalid">>

DumpStr(s) == <<"str", s>>
DumpInt(n) == <<"num", n>>

DumpRect(r) ==
    <<"obj", << <<"x", DumpInt(r.x)>>, <<"y", DumpInt(r.y)>>,
                <<"width", DumpInt(r.width)>>,
                <<"height", DumpInt(r.height)>> >> >>

DumpRects(rs) == <<"arr", [i \in DOMAIN rs |-> DumpRect(rs[i])]>>

\* the tabs of a window written last first
DumpTabsReversed(tabs) ==
    <<"arr", [i \in DOMAIN tabs |-> DumpStr(tabs[Len(tabs) + 1 - i])]>>

DumpTabs(tabs) == <<"arr", [i \in DOMAIN tabs |-> DumpStr(tabs[i])]>>

DumpWindows(ws) == <<"arr", [i \in DOMAIN ws |-> DumpTabs(ws[i])]>>

DumpDocument(d) ==
    <<"obj", << <<"name", DumpStr(d.name)>>, <<"path", DumpStr(d.path)>> >> >>

DumpDocuments(ds) == <<"arr", [i \in DOMAIN ds |-> DumpDocument(ds[i])]>>

\* the keys of an app dict, in the order the capturers insert them
DumpApp(a) ==
    <<"obj",
      << <<"app", DumpStr(a.app)>>, <<"type", DumpStr(a.type)>> >>
      \o (IF "windows" \in DOMAIN a
          THEN << <<"windows", DumpWindows(a.windows)>> >> ELSE <<>>)
      \o (IF "documents" \in DOMAIN a
          THEN << <<"documents", DumpDocuments(a.documents)>> >> ELSE <<>>)
      \o (IF "current_layout" \in DOMAIN a
          THEN << <<"current_layout", DumpStr(a.current_layout)>> >>
          ELSE <<>>)
      \o << <<"window_positions", DumpRects(a.window_positions)>> >> >>

DumpApps(as) == <<"arr", [i \in DOMAIN as |-> DumpApp(as[i])]>>

\* json.dump(workspace_data, f, indent=2)
JsonDump(w) ==
    <<"obj", << <<"name", DumpStr(w.name)>>,
                <<"created", DumpStr(w.created)>>,
                <<"apps", DumpApps(w.apps)>> >> >>

\* the value of the last pair of an object that has key k
LastOf(pairs, k) ==
    pairs[CHOOSE i \in DOMAIN pairs :
            /\ pairs[i][1] = k
            /\ \A j \in DOMAIN pairs : pairs[j][1] = k => j <= i][2]

\* json.load(f) of a text that is JSON
RECURSIVE JsonLoad(_)
JsonLoad(v) ==
    CASE v[1] = "str" -> v[2]
      [] v[1] = "num" -> v[2]
      [] v[1] = "arr" -> [i \in DOMAIN v[2] |-> JsonLoad(v[2][i])]
      [] v[1] = "obj" ->
            [k \in {v[2][i][1] : i \in DOMAIN v[2]} |->
                JsonLoad(LastOf(v[2], k))]

\* the Python type json.load gives for a text that is JSON
PyType(v) ==
    CASE v[1] = "obj" -> "dict"
      [] v[1] = "arr" -> "list"
      [] v[1] = "str" -> "str"
      [] v[1] = "num" -> "int"

----------------------------------------------------------------------------
(* The store: one file per workspace in saved_workspaces. *)

\* self.workspace_dir / f"{name}.json"
WorkspaceFile(name) == name \o <<".json">>

\* Path.stem of a *.json file
Stem(f) == SubSeq(f, 1, Len(f) - 1)

\* Path.exists()
Exists(fs, f) == f \in DOMAIN fs

\* open(f, 'x'): a file that is there keeps what it holds
WriteFileOnce(fs, f, text) ==
    [g \in DOMAIN fs \cup {f} |-> IF g = f /\ g \notin DOMAIN fs THEN text
                                  ELSE fs[g]]

\* open(f, 'w') and the write of text: the file holds text and nothing else
WriteFile(fs, f, text) ==
    [g \in DOMAIN fs \cup {f} |-> IF g = f THEN text ELSE fs[g]]

\* the removal of every file of the directory
UnlinkAll(fs, f) == [g \in DOMAIN fs \ (DOMAIN fs \cup {f}) |-> fs[g]]

\* Path.unlink()
Unlink(fs, f) == [g \in DOMAIN fs \ {f} |-> fs[g]]

\* workspace_dir.glob("*.json")
Glob(fs) == {f \in DOMAIN fs : EndsWith(f, <<".json">>)}

----------------------------------------------------------------------------
(* The control plane adapter.  An answer of the interpreter is how one     *)
(* osascript run ended: it exited with a status and a standard output, it  *)
(* ran over the time limit, or it could not be run.                        *)

Answer(text) == [how |-> "exit", rc |-> 0, stdout |-> text]
Failure == [how |-> "exit", rc |-> 1, stdout |-> <<>>]
Timeout == [how |-> "timeout", rc |-> 0, stdout |-> <<>>]

\* run_applescript: the trimmed output of a run that exited with status 0,
\* the empty string otherwise
run_applescript(o) ==
    IF o.how = "exit" /\ o.rc = 0 THEN Strip(o.stdout) ELSE <<>>

----------------------------------------------------------------------------
(* Numbers in text. *)

\* the texts int() accepts, with their values
IntLiteral ==
    ("0" :> 0) @@ ("1" :> 1) @@ ("2" :> 2) @@ ("3" :> 3) @@ ("4" :> 4)
    @@ ("5" :> 5) @@ ("40" :> 40) @@ ("600" :> 600) @@ ("800" :> 800)
    @@ ("-5" :> -5)

\* the texts float() accepts and int() does not, with int(float(text))
FloatLiteral == ("10.7" :> 10) @@ ("-0.5" :> 0)

\* int(s): [ok, value]; not ok is ValueError
ParseInt(s) ==
    IF Len(s) = 1 /\ s[1] \in DOMAIN IntLiteral
    THEN [ok |-> TRUE, value |-> IntLiteral[s[1]]]
    ELSE [ok |-> FALSE, value |-> 0]

\* int(float(s)): [error, value]; error is "none", "ValueError" (float() of
\* a text that is no number, int() of NaN) or "OverflowError" (int() of an
\* infinity)
IntOfFloat(s) ==
    IF Len(s) = 1 /\ s[1] \in DOMAIN IntLiteral
    THEN [error |-> "none", value |-> IntLiteral[s[1]]]
    ELSE IF Len(s) = 1 /\ s[1] \in DOMAIN FloatLiteral
    THEN [error |-> "none", value |-> FloatLiteral[s[1]]]
    ELSE IF Len(s) = 1 /\ s[1] \in {"inf", "-inf", "1e999"}
    THEN [error |-> "OverflowError", value |-> 0]
    ELSE [error |-> "ValueError", value |-> 0]

----------------------------------------------------------------------------
(* The window geometry probe: get_window_positions. *)

\* coords of one per-window result: cleaned, split, stripped, empties dropped
Coords(result) ==
    LET clean == Replace(Replace(Strip(result), <<" ", ",", ",", " ">>,
                                 <<",">>),
                         <<",", ",">>, <<",">>)
        pieces == Split(clean, ",")
        kept == SelectSeq(pieces, LAMBDA c : Strip(c) # <<>>)
    IN  [i \in DOMAIN kept |-> Strip(kept[i])]

\* the first of the four conversions that fails decides the exception
FirstError(nums) ==
    IF \A i \in 1..4 : nums[i].error = "none" THEN "none"
    ELSE nums[CHOOSE i \in 1..4 :
                /\ nums[i].error # "none"
                /\ \A j \in 1..(i - 1) : nums[j].error = "none"].error

\* one per-window result: [error, rects]; rects holds the WindowRect the
\* result contributes, or nothing
ParseWindow(result) ==
    IF result # <<>> /\ ~StartsWith(result, <<"ERROR:">>)
    THEN LET coords == Coords(result)
         IN  IF Len(coords) = 4
             THEN LET nums == [i \in 1..4 |-> IntOfFloat(coords[i])]
                      err == FirstError(nums)
                  IN  IF err = "none"
                      THEN [error |-> "none",
                            rects |-> <<[x |-> nums[1].value,
                                         y |-> nums[2].value,
                                         width |-> nums[3].value,
                                         height |-> nums[4].value]>>]
                      ELSE IF err = "ValueError"
                      THEN [error |-> "none", rects |-> <<>>]
                      ELSE [error |-> err, rects |-> <<>>]
             ELSE [error |-> "none", rects |-> <<>>]
    ELSE [error |-> "none", rects |-> <<>>]

\* the loop over the windows i..count: [error, value, queried]; queried
\* holds the indices whose window_script was run, in order
RECURSIVE ProbeFrom(_, _, _, _)
ProbeFrom(i, count, wins, positions) ==
    IF i > count
    THEN [error |-> "none", value |-> positions, queried |-> <<>>]
    ELSE LET w == ParseWindow(run_applescript(wins[i]))
         IN  IF w.error # "none"
             THEN [error |-> w.error, value |-> positions, queried |-> <<i>>]
             ELSE LET rest == ProbeFrom(i + 1, count, wins,
                                        positions \o w.rects)
                  IN  [rest EXCEPT !.queried = <<i>> \o @]

\* get_window_positions under the answers p = [count, wins] of the control
\* plane: [error, value, queried]; error is the exception that leaves the
\* function
get_window_positions(p) ==
    LET window_count_result == run_applescript(p.count)
        n == ParseInt(window_count_result)
    IN  IF window_count_result = <<>>
        THEN [error |-> "none", value |-> <<>>, queried |-> <<>>]
        ELSE IF ~n.ok
        THEN [error |-> "none", value |-> <<>>, queried |-> <<>>]
        ELSE ProbeFrom(1, n.value, p.wins, <<>>)

----------------------------------------------------------------------------
(* The capturers.  cp holds the answers of the control plane to the        *)
(* queries of one capture: cp.running to the process list, cp.content[a]   *)
(* to the content query of application a, cp.layout to the layout query,   *)
(* cp.probe[a] = [count, wins] to the probe of a.  A capturer gives        *)
(* [error, data]: data is the app dict, <<>> for the empty dict.           *)

Safari == S("Safari")
Word == S("Microsoft Word")
Logos == S("Logos")
Zotero == S("Zotero")
Finder == S("Finder")
SystemEvents == S("System Events")

\* the keys of app_capturers, in the order of the dict
app_capturers == <<Safari, Word, Logos, Zotero>>

Range(xs) == {xs[i] : i \in DOMAIN xs}

\* get_running_apps
get_running_apps(o) ==
    LET result == run_applescript(o)
        apps == Split(Replace(Replace(result, <<"{">>, <<>>), <<"}">>, <<>>),
                      ", ")
        kept == SelectSeq(apps, LAMBDA app : Strip(app) # <<>>)
    IN  IF result # <<>>
        THEN [i \in DOMAIN kept |-> StripChar(kept[i], "\"")]
        ELSE <<>>

\* the tabs of one window of the Safari result
Tabs(window_data) ==
    LET urls == SelectSeq(Split(window_data, ":::"),
                          LAMBDA url : Strip(url) # <<>>)
    IN  [i \in DOMAIN urls |-> Strip(urls[i])]

\* the windows of the Safari result, those without tabs among them
WindowsWithEmpty(result) ==
    LET datas == SelectSeq(Split(result, "|||"), LAMBDA d : Strip(d) # <<>>)
    IN  [i \in DOMAIN datas |-> Tabs(datas[i])]

\* the windows of the Safari result: the windows that have tabs
Windows(result) ==
    LET datas == SelectSeq(Split(result, "|||"),
                           LAMBDA d : Strip(d) # <<>> /\ Tabs(d) # <<>>)
    IN  [i \in DOMAIN datas |-> Tabs(datas[i])]

\* capture_safari_data
capture_safari_data(cp) ==
    LET result == run_applescript(cp.content[Safari])
        wp == get_window_positions(cp.probe[Safari])
    IN  IF result # <<>>
        THEN [error |-> wp.error,
              data |-> [app |-> Safari, type |-> S("browser"),
                        windows |-> Windows(result),
                        window_positions |-> wp.value]]
        ELSE [error |-> "none", data |-> <<>>]

\* one entry of the Word result
Document(doc_data) ==
    LET parts == Split(doc_data, ":::")
    IN  [name |-> parts[1],
         path |-> IF Len(parts) > 1 THEN parts[2] ELSE <<>>]

\* the documents of the Word result: the entries that have a name
Documents(result) ==
    LET datas == SelectSeq(Split(result, "|||"),
                           LAMBDA d : Strip(d) # <<>>
                                      /\ Document(d).name # <<>>)
    IN  [i \in DOMAIN datas |-> Document(datas[i])]

\* capture_word_data
capture_word_data(cp) ==
    LET result == run_applescript(cp.content[Word])
        wp == get_window_positions(cp.probe[Word])
    IN  IF result # <<>>
        THEN [error |-> wp.error,
              data |-> [app |-> Word, type |-> S("document_editor"),
                        documents |-> Documents(result),
                        window_positions |-> wp.value]]
        ELSE [error |-> "none", data |-> <<>>]

\* capture_logos_data
capture_logos_data(cp) ==
    LET result == run_applescript(cp.content[Logos])
        current_layout == run_applescript(cp.layout)
        wp == get_window_positions(cp.probe[Logos])
    IN  IF result = S("running")
        THEN [error |-> wp.error,
              data |-> [app |-> Logos, type |-> S("bible_software"),
                        current_layout |-> current_layout,
                        window_positions |-> wp.value]]
        ELSE [error |-> "none", data |-> <<>>]

\* a capture_zotero_data that gives its entry the type of the basic ones
capture_zotero_data_generic(cp) ==
    LET result == run_applescript(cp.content[Zotero])
        wp == get_window_positions(cp.probe[Zotero])
    IN  IF result = S("running")
        THEN [error |-> wp.error,
              data |-> [app |-> Zotero, type |-> S("generic"),
                        window_positions |-> wp.value]]
        ELSE [error |-> "none", data |-> <<>>]

\* capture_zotero_data
capture_zotero_data(cp) ==
    LET result == run_applescript(cp.content[Zotero])
        wp == get_window_positions(cp.probe[Zotero])
    IN  IF result = S("running")
        THEN [error |-> wp.error,
              data |-> [app |-> Zotero, type |-> S("reference_manager"),
                        window_positions |-> wp.value]]
        ELSE [error |-> "none", data |-> <<>>]

\* app_capturers[app_name]()
Capturer(app_name, cp) ==
    CASE app_name = Safari -> capture_safari_data(cp)
      [] app_name = Word -> capture_word_data(cp)
      [] app_name = Logos -> capture_logos_data(cp)
      [] app_name = Zotero -> capture_zotero_data(cp)

\* a first loop that calls every capturer, running or not
RECURSIVE CaptureSpecificAll(_, _, _, _)
CaptureSpecificAll(k, running_apps, cp, apps) ==
    IF k > Len(app_capturers) THEN [error |-> "none", apps |-> apps]
    ELSE LET r == Capturer(app_capturers[k], cp)
         IN  IF r.error # "none" THEN [error |-> r.error, apps |-> apps]
             ELSE CaptureSpecificAll(k + 1, running_apps, cp,
                     IF r.data # <<>> THEN Append(apps, r.data) ELSE apps)

\* the first loop of capture_workspace, from the k-th capturer on:
\* [error, apps]
RECURSIVE CaptureSpecific(_, _, _, _)
CaptureSpecific(k, running_apps, cp, apps) ==
    IF k > Len(app_capturers) THEN [error |-> "none", apps |-> apps]
    ELSE IF app_capturers[k] \in Range(running_apps)
    THEN LET r == Capturer(app_capturers[k], cp)
         IN  IF r.error # "none" THEN [error |-> r.error, apps |-> apps]
             ELSE CaptureSpecific(k + 1, running_apps, cp,
                     IF r.data # <<>> THEN Append(apps, r.data) ELSE apps)
    ELSE CaptureSpecific(k + 1, running_apps, cp, apps)

\* a second loop that adds an app whether or not it got positions
RECURSIVE CaptureOtherAlways(_, _, _)
CaptureOtherAlways(rest, cp, apps) ==
    IF rest = <<>> THEN [error |-> "none", apps |-> apps]
    ELSE LET app_name == Head(rest)
         IN  IF /\ app_name \notin Range(app_capturers)
                /\ app_name \notin {Finder, SystemEvents}
             THEN LET wp == get_window_positions(cp.probe[app_name])
                      basic_data == [app |-> app_name, type |-> S("generic"),
                                     window_positions |-> wp.value]
                  IN  IF wp.error # "none"
                      THEN [error |-> wp.error, apps |-> apps]
                      ELSE CaptureOtherAlways(Tail(rest), cp,
                                              Append(apps, basic_data))
             ELSE CaptureOtherAlways(Tail(rest), cp, apps)

\* the second loop of capture_workspace over the rest of running_apps:
\* [error, apps]
RECURSIVE CaptureOther(_, _, _)
CaptureOther(rest, cp, apps) ==
    IF rest = <<>> THEN [error |-> "none", apps |-> apps]
    ELSE LET app_name == Head(rest)
         IN  IF /\ app_name \notin Range(app_capturers)
                /\ app_name \notin {Finder, SystemEvents}
             THEN LET wp == get_window_positions(cp.probe[app_name])
                      basic_data == [app |-> app_name, type |-> S("generic"),
                                     window_positions |-> wp.value]
                  IN  IF wp.error # "none"
                      THEN [error |-> wp.error, apps |-> apps]
                      ELSE CaptureOther(Tail(rest), cp,
                              IF wp.value # <<>> THEN Append(apps, basic_data)
                              ELSE apps)
             ELSE CaptureOther(Tail(rest), cp, apps)

\* the two loops of capture_workspace: [error, apps]
CaptureLoops(cp) ==
    LET running_apps == get_running_apps(cp.running)
        first == CaptureSpecific(1, running_apps, cp, <<>>)
        second == CaptureOther(running_apps, cp, first.apps)
    IN  IF first.error # "none" THEN first ELSE second

\* workspace_data
WorkspaceData(name, now, apps) ==
    [name |-> name, created |-> Isoformat(now), apps |-> apps]

\* capture_workspace, its loops ending as c: [error, files, data]; files
\* is the store after the call, data the workspace_data saved
capture_workspace(fs, name, now, c) ==
    IF c.error # "none"
    THEN [error |-> c.error, files |-> fs, data |-> <<>>]
    ELSE [error |-> "none",
          files |-> WriteFile(fs, WorkspaceFile(name),
                              JsonDump(WorkspaceData(name, now, c.apps))),
          data |-> WorkspaceData(name, now, c.apps)]

----------------------------------------------------------------------------
(* Restore.  The log holds the commands sent to the control plane, in      *)
(* order; via is "adapter" for a command sent through run_applescript and  *)
(* "direct" for one sent by a subprocess call of its own.                  *)

CloseWindows(app) == [cmd |-> "close_windows", app |-> app, via |-> "adapter"]
MakeDocument(app, tabs, first) ==
    [cmd |-> "make_document", app |-> app, url |-> Head(tabs),
     tabs |-> Tail(tabs), activate |-> first, via |-> "adapter"]
Launch(app) == [cmd |-> "launch", app |-> app, via |-> "adapter"]
Activate(app) == [cmd |-> "activate", app |-> app, via |-> "adapter"]
ClickLayout(app, layout) ==
    [cmd |-> "click_layout", app |-> app, layout |-> layout,
     via |-> "adapter"]
PosixPathOf(app, path, o) ==
    [cmd |-> "posix_path", app |-> app, path |-> path, reply |-> o,
     via |-> "direct"]
\* os.path.exists(path), which is no command: its answer is on_disk
PathExists(path, on_disk) ==
    [cmd |-> "path_exists", path |-> path, reply |-> on_disk, via |-> "os"]
DocumentNames(app, o) ==
    [cmd |-> "document_names", app |-> app, reply |-> o, via |-> "direct"]
OpenFile(app, path) ==
    [cmd |-> "open", app |-> app, path |-> path, via |-> "direct"]
CountWindows(app, o) ==
    [cmd |-> "count_windows", app |-> app, reply |-> o, via |-> "adapter"]
\* the line "Opening <app>..." restore prints as it comes to an app
Opening(app) == [cmd |-> "opening", app |-> app, via |-> "print"]
\* a script that sets the size, then the position
SetGeometrySizeFirst(app, i, pos) ==
    [cmd |-> "set_geometry", app |-> app, index |-> i,
     script |-> <<[set |-> "size", to |-> <<pos.width, pos.height>>],
                  [set |-> "position", to |-> <<pos.x, pos.y>>]>>,
     via |-> "adapter"]

\* one script per window: it sets the position, then the size
SetGeometry(app, i, pos) ==
    [cmd |-> "set_geometry", app |-> app, index |-> i,
     script |-> <<[set |-> "position", to |-> <<pos.x, pos.y>>],
                  [set |-> "size", to |-> <<pos.width, pos.height>>]>>,
     via |-> "adapter"]

GeometryCmds == {"count_windows", "set_geometry"}

\* the creation of the windows i.. of restore_safari
RECURSIVE MakeWindows(_, _)
MakeWindows(windows, i) ==
    IF i > Len(windows) THEN <<>>
    ELSE (IF windows[i] = <<>> THEN <<>>
          ELSE <<MakeDocument(Safari, windows[i], i = 1)>>)
         \o MakeWindows(windows, i + 1)

\* a restore_safari that closes the windows after it has made the new ones
restore_safari_close_last(app_data) ==
    LET windows == Get(app_data, "windows", <<>>)
    IN  IF windows = <<>> THEN <<>>
        ELSE MakeWindows(windows, 1) \o <<CloseWindows(Safari)>>

\* restore_safari: the commands it sends
restore_safari(app_data) ==
    LET windows == Get(app_data, "windows", <<>>)
    IN  IF windows = <<>> THEN <<>>
        ELSE <<CloseWindows(Safari)>> \o MakeWindows(windows, 1)

\* convert_to_posix: the trimmed output, whatever the exit status
convert_to_posix(o) == Strip(o.stdout)

\* is_document_open: a failed query counts as not open
is_document_open(doc_path, o) ==
    IF o.how = "exit" /\ o.rc = 0
    THEN LET open_docs == Split(o.stdout, ", ")
         IN  \E i \in DOMAIN open_docs :
                EndsWith(doc_path, Strip(open_docs[i]))
    ELSE FALSE

\* an open_document that does not look for the file on disk
open_document_unchecked(doc_path, d) ==
    IF is_document_open(doc_path, d.names)
    THEN <<PathExists(doc_path, d.on_disk), DocumentNames(Word, d.names)>>
    ELSE <<PathExists(doc_path, d.on_disk), DocumentNames(Word, d.names),
           OpenFile(Word, doc_path)>>

\* open_document under the answers d = [posix, on_disk, names] for it
open_document(doc_path, d) ==
    IF ~d.on_disk THEN <<PathExists(doc_path, FALSE)>>
    ELSE IF is_document_open(doc_path, d.names)
    THEN <<PathExists(doc_path, TRUE), DocumentNames(Word, d.names)>>
    ELSE <<PathExists(doc_path, TRUE), DocumentNames(Word, d.names),
           OpenFile(Word, doc_path)>>

\* the loop of restore_word over the documents i..
RECURSIVE OpenDocuments(_, _, _)
OpenDocuments(documents, ds, i) ==
    IF i > Len(documents) THEN <<>>
    ELSE LET applescript_path == Get(documents[i], "path", <<>>)
             posix_path == convert_to_posix(ds[i].posix)
         IN  <<PosixPathOf(Word, applescript_path, ds[i].posix)>>
             \o (IF posix_path # <<>>
                 THEN open_document(posix_path, ds[i]) ELSE <<>>)
             \o OpenDocuments(documents, ds, i + 1)

\* restore_word under the answers ds, one per document
restore_word(app_data, ds) ==
    LET documents == Get(app_data, "documents", <<>>)
    IN  <<Launch(Word), Activate(Word)>>
        \o (IF documents = <<>> THEN <<>>
            ELSE OpenDocuments(documents, ds, 1))

\* restore_logos
restore_logos(app_data) ==
    LET layout == Get(app_data, "current_layout", <<>>)
    IN  <<Activate(Logos)>>
        \o (IF layout # <<>> THEN <<ClickLayout(Logos, layout)>> ELSE <<>>)

\* the body of the first loop of restore_workspace for one app
OpenApp(app_data, ds) ==
    LET app_name == Get(app_data, "app", <<>>)
    IN  IF app_name = Safari THEN restore_safari(app_data)
        ELSE IF app_name = Word THEN restore_word(app_data, ds)
        ELSE IF app_name = Logos THEN restore_logos(app_data)
        ELSE IF app_name = Zotero THEN <<Activate(Zotero)>>
        ELSE <<Activate(app_name)>>

\* the loop with its bound off by one: it goes on to window
\* actual_window_count + 1
RECURSIVE SetPositionsPastCount(_, _, _, _)
SetPositionsPastCount(app_name, positions, actual_window_count, i) ==
    IF i > Len(positions) THEN <<>>
    ELSE IF i - 1 > actual_window_count THEN <<>>
    ELSE <<SetGeometry(app_name, i, positions[i])>>
         \o SetPositionsPastCount(app_name, positions, actual_window_count,
                                  i + 1)

\* the loop of restore_window_positions over the positions i..
RECURSIVE SetPositions(_, _, _, _)
SetPositions(app_name, positions, actual_window_count, i) ==
    IF i > Len(positions) THEN <<>>
    ELSE IF i - 1 >= actual_window_count THEN <<>>
    ELSE <<SetGeometry(app_name, i, positions[i])>>
         \o SetPositions(app_name, positions, actual_window_count, i + 1)

\* restore_window_positions under the answer o to the count query
restore_window_positions(app_name, positions, o) ==
    LET window_count_str == run_applescript(o)
        n == ParseInt(window_count_str)
        actual_window_count ==
            IF window_count_str = <<>> THEN 0
            ELSE IF n.ok THEN n.value ELSE 0
    IN  IF positions = <<>> THEN <<>>
        ELSE <<CountWindows(app_name, o)>>
             \o SetPositions(app_name, positions, actual_window_count, 1)

\* a first pass that an app's failure ends: it goes no further than Word
\* when a path of one of its documents could not be converted
RECURSIVE FirstPassToFailure(_, _, _)
FirstPassToFailure(apps, rp, k) ==
    IF k > Len(apps) THEN <<>>
    ELSE <<Opening(Get(apps[k], "app", <<>>))>>
         \o OpenApp(apps[k], rp.docs)
         \o (IF /\ Get(apps[k], "app", <<>>) = Word
                /\ \E i \in DOMAIN rp.docs : rp.docs[i].posix = Failure
             THEN <<>>
             ELSE FirstPassToFailure(apps, rp, k + 1))

\* the first pass of restore_workspace over the apps k..
RECURSIVE FirstPass(_, _, _)
FirstPass(apps, rp, k) ==
    IF k > Len(apps) THEN <<>>
    ELSE <<Opening(Get(apps[k], "app", <<>>))>>
         \o OpenApp(apps[k], rp.docs) \o FirstPass(apps, rp, k + 1)

\* the second pass of restore_workspace over the apps k..
RECURSIVE SecondPass(_, _, _)
SecondPass(apps, rp, k) ==
    IF k > Len(apps) THEN <<>>
    ELSE LET app_name == Get(apps[k], "app", <<>>)
             positions == Get(apps[k], "window_positions", <<>>)
         IN  (IF positions # <<>>
              THEN restore_window_positions(app_name, positions,
                                            rp.counts[k])
              ELSE <<>>)
             \o SecondPass(apps, rp, k + 1)

\* one loop doing for each app what the two loops do: its content, then
\* its geometry
RECURSIVE OnePass(_, _, _)
OnePass(apps, rp, k) ==
    IF k > Len(apps) THEN <<>>
    ELSE LET app_name == Get(apps[k], "app", <<>>)
             positions == Get(apps[k], "window_positions", <<>>)
         IN  <<Opening(app_name)>> \o OpenApp(apps[k], rp.docs)
             \o (IF positions # <<>>
                 THEN restore_window_positions(app_name, positions,
                                               rp.counts[k])
                 ELSE <<>>)
             \o OnePass(apps, rp, k + 1)

\* the two passes merged into one
BothPassesMerged(apps, rp) == OnePass(apps, rp, 1)

\* the two passes of restore_workspace, the first before the second
BothPasses(apps, rp) == FirstPass(apps, rp, 1) \o SecondPass(apps, rp, 1)

\* a head of restore_workspace that takes a document it cannot read for a
\* workspace with no apps
ReadWorkspaceLenient(fs, name) ==
    LET workspace_file == WorkspaceFile(name)
        workspace_data ==
            IF fs[workspace_file] # InvalidText
               /\ PyType(fs[workspace_file]) = "dict"
            THEN JsonLoad(fs[workspace_file]) ELSE <<>>
    IN  IF ~Exists(fs, workspace_file)
        THEN [found |-> FALSE, error |-> "none", data |-> <<>>]
        ELSE [found |-> TRUE, error |-> "none", data |-> workspace_data]

\* the head of restore_workspace, up to the line that prints the name:
\* [found, error, data]
ReadWorkspace(fs, name) ==
    LET workspace_file == WorkspaceFile(name)
        text == fs[workspace_file]
        workspace_data == JsonLoad(text)
    IN  IF ~Exists(fs, workspace_file)
        THEN [found |-> FALSE, error |-> "none", data |-> <<>>]
        ELSE IF text = InvalidText
        THEN [found |-> TRUE, error |-> "JSONDecodeError", data |-> <<>>]
        ELSE IF PyType(text) # "dict"
        THEN [found |-> TRUE, error |-> "TypeError", data |-> <<>>]
        ELSE IF "name" \notin DOMAIN workspace_data
        THEN [found |-> TRUE, error |-> "KeyError", data |-> workspace_data]
        ELSE [found |-> TRUE, error |-> "none", data |-> workspace_data]

\* restore_workspace, its head ending as r, under the answers rp of the
\* control plane: [error, printed, log, data]
restore_workspace(r, rp) ==
    IF ~r.found
    THEN [error |-> "none", printed |-> <<"not found!">>,
          log |-> <<>>, data |-> <<>>]
    ELSE IF r.error # "none"
    THEN [error |-> r.error, printed |-> <<>>, log |-> <<>>, data |-> r.data]
    ELSE [error |-> "none", printed |-> <<"Restoring", "restored!">>,
          log |-> BothPasses(Get(r.data, "apps", <<>>), rp),
          data |-> r.data]

----------------------------------------------------------------------------
(* Listing and deleting. *)

\* the summary of one well-formed document
Summary(f, data) ==
    LET apps == Get(data, "apps", <<>>)
    IN  [name |-> Get(data, "name", Stem(f)),
         created |-> Get(data, "created", S("Unknown")),
         app_count |-> Len(apps),
         apps |-> [i \in DOMAIN apps |-> Get(apps[i], "app", S("Unknown"))]]

\* the loop of list_workspaces over the files in the order of the glob:
\* [error, value]
RECURSIVE Summaries(_, _, _)
Summaries(fs, order, workspaces) ==
    IF order = <<>> THEN [error |-> "none", value |-> workspaces]
    ELSE LET f == Head(order)
         IN  IF fs[f] = InvalidText
             THEN Summaries(fs, Tail(order), workspaces)
             ELSE IF PyType(fs[f]) # "dict"
             THEN [error |-> "AttributeError", value |-> workspaces]
             ELSE Summaries(fs, Tail(order),
                            Append(workspaces, Summary(f, JsonLoad(fs[f]))))

\* x placed into xs the other way round: oldest first
RECURSIVE InsertAsc(_, _)
InsertAsc(xs, x) ==
    IF xs = <<>> THEN <<x>>
    ELSE IF StrLess(x.created, Head(xs).created)
         THEN <<x>> \o xs
         ELSE <<Head(xs)>> \o InsertAsc(Tail(xs), x)

\* x placed into xs, sorted by created descending, behind its equals
RECURSIVE InsertDesc(_, _)
InsertDesc(xs, x) ==
    IF xs = <<>> THEN <<x>>
    ELSE IF StrLess(Head(xs).created, x.created)
         THEN <<x>> \o xs
         ELSE <<Head(xs)>> \o InsertDesc(Tail(xs), x)

\* sorted(workspaces, key=created, reverse=True): stable
RECURSIVE SortedByCreated(_)
SortedByCreated(xs) ==
    IF xs = <<>> THEN <<>>
    ELSE InsertDesc(SortedByCreated(SubSeq(xs, 1, Len(xs) - 1)),
                    xs[Len(xs)])

\* list_workspaces, the glob giving the files in this order: [error, value]
list_workspaces(fs, order) ==
    LET found == Summaries(fs, order, <<>>)
    IN  IF found.error # "none" THEN [error |-> found.error, value |-> <<>>]
        ELSE [error |-> "none", value |-> SortedByCreated(found.value)]

\* delete_workspace: [printed, files]
delete_workspace(fs, name) ==
    LET workspace_file == WorkspaceFile(name)
    IN  IF ~Exists(fs, workspace_file)
        THEN [printed |-> <<"not found!">>, files |-> fs]
        ELSE [printed |-> <<"deleted.">>,
              files |-> Unlink(fs, workspace_file)]

----------------------------------------------------------------------------
(* The inputs of the model: the names typed, and the answers of the        *)
(* control plane.                                                          *)

Names == {S("w1"), S("w2")}

\* args.name: a name, or <<>> when none (or an empty one) is given
ArgNames == Names \cup {<<>>}

\* what is typed at "Enter workspace name: "
TypedNames == {<<" ">>, <<" ", "w1", " ">>}

\* what is typed at "Select workspace number"
TypedChoices == {S("1"), S("2"), S("abc")}

\* what is typed at "Are you sure"
TypedConfirms == {S("y"), S("Y"), <<>>}

\* str.lower()
Lower(s) == [i \in DOMAIN s |-> IF s[i] = "Y" THEN "y" ELSE s[i]]

Notes == S("Notes")

Digits == <<"0", "1", "2", "3", "4", "5">>

\* the text of a window count
CountText(n) == S(Digits[n + 1])

\* a per-window result as AppleScript joins it: "0, ,, 40, ,, 800, ,, 600"
JoinedRect ==
    <<"0", ",", " ", ",", ",", " ", "40", ",", " ", ",", ",", " ",
      "800", ",", " ", ",", ",", " ", "600", "\n">>
PlainRect == <<"40", ",", "40", ",", "800", ",", "600">>
ErrorResult == <<"ERROR:", " ", "Invalid index">>
InfiniteRect == <<"inf", ",", "0", ",", "800", ",", "600">>

\* answers to one probe: two windows; one window failing; no count; a
\* window whose x is an infinity
ProbeAnswers ==
    { [count |-> Answer(CountText(2)),
       wins |-> <<Answer(JoinedRect), Answer(PlainRect)>>],
      [count |-> Answer(<<"2", "\n">>),
       wins |-> <<Answer(ErrorResult), Answer(PlainRect)>>],
      [count |-> Timeout, wins |-> <<>>],
      [count |-> Answer(CountText(1)), wins |-> <<Answer(InfiniteRect)>>] }

TwoWindows ==
    [count |-> Answer(CountText(2)),
     wins |-> <<Answer(JoinedRect), Answer(PlainRect)>>]

SafariTabs ==
    <<"https://a.com", ":::", "https://b.com", "|||", " ", "|||",
      "https://c.com", "\n">>

WordDocuments ==
    <<"a.docx", ":::", "Mac:docs:", "a.docx", "|||", "b.docx", ":::",
      "Mac:docs:", "b.docx">>

NoWindows == [count |-> Timeout, wins |-> <<>>]

OneWindow == [count |-> Answer(CountText(1)), wins |-> <<Answer(PlainRect)>>]

\* one Safari window with two tabs
OneWindowTabs == <<"https://a.com", ":::", "https://b.com">>

\* the answers of the control plane to one capture
Envs ==
    [running : {Answer(<<"Safari", ", ", "Notes">>)},
     content : {Safari :> Answer(SafariTabs)},
     layout : {Failure},
     probe : {(Safari :> TwoWindows) @@ (Notes :> p) : p \in ProbeAnswers}]
    \cup
    [running : {Answer(<<"{", "\"", "Microsoft Word", "\"", ", ",
                         "\"", "Finder", "\"", ", ", "\"", "Notes", "\"",
                         "}", "\n">>)},
     content : {Word :> Answer(WordDocuments), Word :> Failure},
     layout : {Failure},
     probe : {(Word :> p) @@ (Notes :> OneWindow) :
                p \in {OneWindow, NoWindows}}]
    \cup
    [running : {Answer(<<"Safari">>)},
     content : {Safari :> Answer(OneWindowTabs)},
     layout : {Failure},
     probe : {Safari :> OneWindow}]
    \cup
    [running : {Answer(<<"Logos", ", ", "Zotero">>)},
     content : {(Logos :> Answer(S("running")))
                @@ (Zotero :> Answer(S("running")))},
     layout : {Answer(S("Study")), Timeout},
     probe : {(Logos :> p) @@ (Zotero :> TwoWindows) :
                p \in {TwoWindows, NoWindows}}]
    \cup
    [running : {Timeout},
     content : {<<>>},
     layout : {Failure},
     probe : {<<>>}]

\* how the loops of one capture may end
Captures == {CaptureLoops(cp) : cp \in Envs}

\* answers to the count query of the geometry step
CountAnswers ==
    {Timeout, Answer(S("abc"))} \cup {Answer(CountText(n)) : n \in 0..MaxCount}

\* the POSIX form of a stored path
PosixPath(path) ==
    [i \in DOMAIN path |-> IF path[i] = "Mac:docs:" THEN "/docs/" ELSE path[i]]

\* answers for one document of restore_word: the path conversion, whether
\* the file is on disk, the names of the open documents
DocAnswers(path) ==
    { [posix |-> Failure, on_disk |-> TRUE, names |-> Failure],
      [posix |-> Answer(PosixPath(path) \o <<"\n">>), on_disk |-> FALSE,
       names |-> Failure],
      [posix |-> Answer(PosixPath(path) \o <<"\n">>), on_disk |-> TRUE,
       names |-> Answer(<<"\n">>)],
      [posix |-> Answer(PosixPath(path) \o <<"\n">>), on_disk |-> TRUE,
       names |-> Answer(<<"c.docx", ", ", "a.docx", "\n">>)] }

\* the documents among those apps
DocumentsOf(apps) ==
    IF \E k \in DOMAIN apps : "documents" \in DOMAIN apps[k]
    THEN apps[CHOOSE k \in DOMAIN apps : "documents" \in DOMAIN apps[k]]
            .documents
    ELSE <<>>

\* the answers of the control plane to one restore of these apps
RestoreAnswers(apps) ==
    LET documents == DocumentsOf(apps)
    IN  [counts : [DOMAIN apps -> CountAnswers],
         docs : {ds \in [DOMAIN documents ->
                            UNION {DocAnswers(documents[i].path) :
                                     i \in DOMAIN documents}] :
                   \A i \in DOMAIN documents :
                      ds[i] \in DocAnswers(documents[i].path)}]

\* the orders in which a glob may give a set of files
Orders(fileset) ==
    {o \in [1..Cardinality(fileset) -> fileset] : Range(o) = fileset}

\* texts another program may leave in saved_workspaces: not JSON, a JSON
\* array, a JSON object with no fields
ForeignTexts == {InvalidText, <<"arr", <<>>>>, <<"obj", <<>>>>}

----------------------------------------------------------------------------
(* main(): one process per command.                                       *)

Init ==
    /\ files = <<>>
    /\ captured = <<>>
    /\ pc = "idle"
    /\ cmd = "none"
    /\ arg = <<>>
    /\ existed = FALSE
    /\ exitCode = 0
    /\ raised = "none"
    /\ printed = <<>>
    /\ log = <<>>
    /\ loaded = <<>>
    /\ listing = <<>>
    /\ answers = <<>>
    /\ snapshot = <<>>
    /\ workers = <<>>

\* what the model remembers of the captures: the workspace_data last saved
\* to a file, until the file is deleted or written by another program
Remember(c, f, data) ==
    [g \in DOMAIN c \cup {f} |-> IF g = f THEN data ELSE c[g]]
Forget(c, f) == [g \in DOMAIN c \ {f} |-> c[g]]

\* the process has run command c on name a and ends with status code
Finish(c, a, ex, code, exc, out, lg, ld, ls) ==
    /\ pc' = "done"
    /\ cmd' = c
    /\ arg' = a
    /\ existed' = ex
    /\ exitCode' = code
    /\ raised' = exc
    /\ printed' = out
    /\ log' = lg
    /\ loaded' = ld
    /\ listing' = ls
    /\ UNCHANGED <<answers, snapshot, workers>>

\* the choice of a workspace by its number in the listing, for load and
\* delete without a name: [ok, error, printed, name]
Select(fs, order, typed) ==
    LET workspaces == list_workspaces(fs, order)
        n == ParseInt(typed)
        choice == n.value - 1
    IN  IF workspaces.error # "none"
        THEN [ok |-> FALSE, error |-> workspaces.error,
              printed |-> <<"Error">>, name |-> <<>>]
        ELSE IF workspaces.value = <<>>
        THEN [ok |-> FALSE, error |-> "SystemExit",
              printed |-> <<"No saved workspaces found!">>, name |-> <<>>]
        ELSE IF ~n.ok
        THEN [ok |-> FALSE, error |-> "SystemExit",
              printed |-> <<"Invalid input!">>, name |-> <<>>]
        ELSE IF 0 <= choice /\ choice < Len(workspaces.value)
        THEN [ok |-> TRUE, error |-> "none", printed |-> <<>>,
              name |-> workspaces.value[choice + 1].name]
        ELSE [ok |-> FALSE, error |-> "SystemExit",
              printed |-> <<"Invalid selection!">>, name |-> <<>>]

\* the name load and delete act on: args.name, or the one selected
Target(fs, argName, order, typed) ==
    IF argName # <<>>
    THEN [ok |-> TRUE, error |-> "none", printed |-> <<>>, name |-> argName]
    ELSE Select(fs, order, typed)

\* main: save
Save(argName, typed, now, c) ==
    /\ pc = "idle"
    /\ \E name \in {IF argName # <<>> THEN argName ELSE Strip(typed)} :
         IF name = <<>>
         THEN /\ Finish("save", name, FALSE, 1, "SystemExit",
                        <<"Workspace name is required!">>, <<>>, <<>>, <<>>)
              /\ UNCHANGED <<files, captured>>
         ELSE \E r \in {capture_workspace(files, name, now, c)} :
                IF r.error # "none"
                THEN /\ Finish("save", name,
                               Exists(files, WorkspaceFile(name)),
                               1, r.error, <<"Error">>, <<>>, <<>>, <<>>)
                     /\ UNCHANGED <<files, captured>>
                ELSE /\ Finish("save", name,
                               Exists(files, WorkspaceFile(name)),
                               0, "none", <<"saved">>, <<>>, <<>>, <<>>)
                     /\ files' = r.files
                     /\ captured' = Remember(captured, WorkspaceFile(name),
                                             r.data)

\* main: load
Load(argName, order, typed) ==
    /\ pc = "idle"
    /\ UNCHANGED <<files, captured>>
    /\ \E t \in {Target(files, argName, order, typed)} :
         IF ~t.ok
         THEN Finish("select", <<>>, FALSE, 1, t.error, t.printed,
                     <<>>, <<>>, <<>>)
         ELSE \E read \in {ReadWorkspace(files, t.name)} :
              \E rp \in RestoreAnswers(Get(read.data, "apps", <<>>)) :
              \E r \in {restore_workspace(read, rp)} :
                Finish("load", t.name, read.found,
                       IF r.error # "none" THEN 1 ELSE 0, r.error,
                       IF r.error # "none" THEN <<"Error">> ELSE r.printed,
                       r.log, r.data, <<>>)

\* a list that removes from the store the files it cannot read
ListPruning(order) ==
    /\ pc = "idle"
    /\ files' = [f \in {g \in DOMAIN files : files[g] # InvalidText} |->
                    files[f]]
    /\ UNCHANGED captured
    /\ \E workspaces \in {list_workspaces(files, order)} :
         IF workspaces.error # "none"
         THEN Finish("list", <<>>, FALSE, 1, workspaces.error,
                     <<"Error">>, <<>>, <<>>, <<>>)
         ELSE Finish("list", <<>>, FALSE, 0, "none",
                     IF workspaces.value = <<>>
                     THEN <<"No saved workspaces found!">>
                     ELSE <<"Saved workspaces:">>,
                     <<>>, <<>>, workspaces.value)

\* main: list
List(order) ==
    /\ pc = "idle"
    /\ UNCHANGED <<files, captured>>
    /\ \E workspaces \in {list_workspaces(files, order)} :
         IF workspaces.error # "none"
         THEN Finish("list", <<>>, FALSE, 1, workspaces.error,
                     <<"Error">>, <<>>, <<>>, <<>>)
         ELSE Finish("list", <<>>, FALSE, 0, "none",
                     IF workspaces.value = <<>>
                     THEN <<"No saved workspaces found!">>
                     ELSE <<"Saved workspaces:">>,
                     <<>>, <<>>, workspaces.value)

\* main: delete
Delete(argName, order, typed, confirm) ==
    /\ pc = "idle"
    /\ \E t \in {Target(files, argName, order, typed)} :
         IF ~t.ok
         THEN /\ Finish("select", <<>>, FALSE, 1, t.error, t.printed,
                        <<>>, <<>>, <<>>)
              /\ UNCHANGED <<files, captured>>
         ELSE IF Lower(confirm) = S("y")
         THEN \E r \in {delete_workspace(files, t.name)} :
                /\ Finish("delete", t.name,
                          Exists(files, WorkspaceFile(t.name)), 0, "none",
                          r.printed, <<>>, <<>>, <<>>)
                /\ files' = r.files
                /\ captured' = Forget(captured, WorkspaceFile(t.name))
         ELSE /\ Finish("cancelled", t.name,
                        Exists(files, WorkspaceFile(t.name)), 0, "none",
                        <<"Cancelled.">>, <<>>, <<>>, <<>>)
              /\ UNCHANGED <<files, captured>>

\* the process ends
Exit ==
    /\ pc = "done"
    /\ pc' = "idle"
    /\ cmd' = "none"
    /\ arg' = <<>>
    /\ existed' = FALSE
    /\ exitCode' = 0
    /\ raised' = "none"
    /\ printed' = <<>>
    /\ log' = <<>>
    /\ loaded' = <<>>
    /\ listing' = <<>>
    /\ UNCHANGED <<files, captured, answers, snapshot, workers>>

\* another program writes a file of saved_workspaces
Tamper(name, text) ==
    /\ pc = "idle"
    /\ files' = WriteFile(files, WorkspaceFile(name), text)
    /\ captured' = Forget(captured, WorkspaceFile(name))
    /\ UNCHANGED <<pc, cmd, arg, existed, exitCode, raised, printed, log,
                   loaded, listing, answers, snapshot, workers>>

\* the interactive inputs are read only when no name is given
OrdersFor(argName) == IF argName = <<>> THEN Orders(Glob(files)) ELSE {<<>>}
ChoicesFor(argName) == IF argName = <<>> THEN TypedChoices ELSE {<<>>}
TypedFor(argName) == IF argName = <<>> THEN TypedNames ELSE {<<>>}

Next ==
    \/ \E argName \in ArgNames, now \in 1..MaxTime, c \in Captures :
         \E typed \in TypedFor(argName) : Save(argName, typed, now, c)
    \/ \E argName \in ArgNames :
         \E order \in OrdersFor(argName), typed \in ChoicesFor(argName) :
            Load(argName, order, typed)
    \/ \E order \in Orders(Glob(files)) : List(order)
    \/ \E argName \in ArgNames, confirm \in TypedConfirms :
         \E order \in OrdersFor(argName), typed \in ChoicesFor(argName) :
            Delete(argName, order, typed, confirm)
    \/ \E name \in Names, text \in ForeignTexts : Tamper(name, text)
    \/ Exit

Spec == Init /\ [][Next]_vars

----------------------------------------------------------------------------
(* The loops of capture_workspace on their own, under any answers of the   *)
(* control plane: each of the four capturers has an answer whether or not  *)
(* its app is in the list of running apps.                                 *)

\* a Safari result with a tab that is blank and a window without tabs
SparseTabs ==
    <<"https://a.com", ":::", " ", ":::", "https://b.com", "|||", ":::",
      "|||", "https://c.com", "\n">>

\* a Word result with a document whose full name could not be read, and
\* one with no separator at all
NoPathDocuments == <<"a.docx", ":::", "|||", "b.docx">>

ZeroWindows == [count |-> Answer(CountText(0)), wins |-> <<>>]

AnyEnvs ==
    [running : {Timeout,
                Answer(<<"Safari", ", ", "Notes">>),
                Answer(<<"{", "\"", "Microsoft Word", "\"", ", ",
                         "\"", "Finder", "\"", ", ", "\"", "Notes", "\"",
                         "}", "\n">>),
                Answer(<<"Logos", ", ", "Zotero", ", ", "System Events">>),
                Answer(<<"Notes", ", ", "Safari", ", ", "Microsoft Word">>)},
     content : {(Safari :> s) @@ (Word :> w) @@ (Logos :> l) @@ (Zotero :> z) :
                  s \in {Answer(SafariTabs), Answer(SparseTabs), Failure},
                  w \in {Answer(WordDocuments), Answer(NoPathDocuments),
                         Answer(<<>>)},
                  l \in {Answer(S("running")), Answer(S("not running"))},
                  z \in {Answer(S("running")), Timeout}},
     layout : {Answer(S("Study")), Failure},
     probe : {[a \in {Safari, Word, Logos, Zotero, Notes, Finder,
                      SystemEvents} |->
                 IF a = Notes THEN p ELSE OneWindow] :
                p \in {TwoWindows, NoWindows, ZeroWindows}}]

\* how the loops of a capture end under each of those answers
Outcomes == {[answers |-> cp, snapshot |-> CaptureLoops(cp)] : cp \in AnyEnvs}

Pending == [error |-> "pending", apps |-> <<>>]

InitCapture ==
    /\ files = <<>>
    /\ captured = <<>>
    /\ pc = "idle"
    /\ cmd = "none"
    /\ arg = <<>>
    /\ existed = FALSE
    /\ exitCode = 0
    /\ raised = "none"
    /\ printed = <<>>
    /\ log = <<>>
    /\ loaded = <<>>
    /\ listing = <<>>
    /\ answers \in AnyEnvs
    /\ snapshot = Pending
    /\ workers = <<>>

\* lines 312-333 of capture_workspace under the answers of the state, o
\* being their outcome
CaptureAlone(o) ==
    /\ snapshot = Pending
    /\ o.answers = answers
    /\ snapshot' = o.snapshot
    /\ UNCHANGED <<files, captured, pc, cmd, arg, existed, exitCode, raised,
                   printed, log, loaded, listing, answers, workers>>

NextCapture == \E o \in Outcomes : CaptureAlone(o)

SpecCapture == InitCapture /\ [][NextCapture]_vars

----------------------------------------------------------------------------
(* Properties of restore.                                                  *)

\* the number of windows a count query with answer o says are live: what
\* it printed when that is an integer, 0 when it failed or printed
\* anything else
LiveCount(o) ==
    IF o.how = "exit" /\ o.rc = 0 /\ ParseInt(Strip(o.stdout)).ok
    THEN ParseInt(Strip(o.stdout)).value
    ELSE 0

\* the place in the log of the latest count query before place j, 0 if none
LastCount(j) ==
    IF \E q \in 1..(j - 1) : log[q].cmd = "count_windows"
    THEN CHOOSE q \in 1..(j - 1) :
            /\ log[q].cmd = "count_windows"
            /\ \A m \in (q + 1)..(j - 1) : log[m].cmd # "count_windows"
    ELSE 0

\* C1: every position/size command of a restore is for a window index no
\* greater than the live window count queried for its app at the start of
\* that app's geometry step, a failed or unparsable count being 0
C1_GeometryWithinLiveCount ==
    \A j \in DOMAIN log :
        log[j].cmd = "set_geometry" =>
            /\ LastCount(j) # 0
            /\ log[LastCount(j)].app = log[j].app
            /\ log[j].index >= 1
            /\ log[j].index <= LiveCount(log[LastCount(j)].reply)

\* a restore of an app with two recorded positions and one live window
\* has set the geometry of window 1 and of no other
C1_Witness ==
    /\ pc = "done"
    /\ cmd = "load"
    /\ \E q \in DOMAIN log :
          /\ log[q].cmd = "count_windows"
          /\ LiveCount(log[q].reply) = 1
          /\ \E k \in DOMAIN loaded.apps :
                /\ loaded.apps[k].app = log[q].app
                /\ Len(loaded.apps[k].window_positions) = 2
          /\ q + 1 \in DOMAIN log
          /\ log[q + 1].cmd = "set_geometry"
          /\ log[q + 1].index = 1
          /\ q + 2 \in DOMAIN log => log[q + 2].cmd # "set_geometry"

\* the apps of the snapshot a restore has read, in its order
AppNames(data) ==
    LET apps == Get(data, "apps", <<>>)
    IN  [k \in DOMAIN apps |-> Get(apps[k], "app", <<>>)]

\* the apps of the commands named c in the log, in its order
AppsOf(c) ==
    LET hits == SelectSeq(log, LAMBDA e : e.cmd = c)
    IN  [k \in DOMAIN hits |-> hits[k].app]

\* the apps of the snapshot that have recorded window positions, in order
AppsWithPositions(data) ==
    LET apps == SelectSeq(Get(data, "apps", <<>>),
                          LAMBDA a : Get(a, "window_positions", <<>>) # <<>>)
    IN  [k \in DOMAIN apps |-> Get(apps[k], "app", <<>>)]

\* C2: in one restore no geometry command (count query, position, size) is
\* sent before the content step of every app of the snapshot has been
\* attempted, and both phases take the apps in the order of the snapshot
C2_PhasesSequential ==
    (pc = "done" /\ cmd = "load" /\ existed /\ raised = "none") =>
        /\ \A i, j \in DOMAIN log :
              (i < j /\ log[i].cmd \in GeometryCmds) =>
                  log[j].cmd \in GeometryCmds
        /\ AppsOf("opening") = AppNames(loaded)
        /\ AppsOf("count_windows") = AppsWithPositions(loaded)

\* a restore of two apps that both have content commands and geometry
C2_Witness ==
    /\ pc = "done"
    /\ cmd = "load"
    /\ Len(AppsOf("count_windows")) = 2
    /\ Len(AppsOf("set_geometry")) >= 2
    /\ \E i \in DOMAIN log : log[i].cmd = "make_document"
    /\ \E i \in DOMAIN log :
          log[i].cmd = "activate" /\ log[i].app = Notes

\* C3: the snapshot the load step of restore reads back from a document
\* that capture wrote is the one capture built: same name and created,
\* same apps in the same order, same fields of each app
C3_RoundTrip ==
    (pc = "done" /\ cmd = "load" /\ WorkspaceFile(arg) \in DOMAIN captured) =>
        /\ raised = "none"
        /\ loaded = captured[WorkspaceFile(arg)]

\* a restore has read back a captured snapshot with Safari windows of
\* several tabs, window positions, and a second app
C3_Witness ==
    /\ pc = "done"
    /\ cmd = "load"
    /\ WorkspaceFile(arg) \in DOMAIN captured
    /\ Len(loaded.apps) = 2
    /\ \E k \in DOMAIN loaded.apps :
          /\ "windows" \in DOMAIN loaded.apps[k]
          /\ Len(loaded.apps[k].windows) = 2
          /\ Len(loaded.apps[k].windows[1]) = 2
          /\ Len(loaded.apps[k].window_positions) = 2

----------------------------------------------------------------------------
(* Properties of the store.                                                *)

\* C4: whatever captures and deletes have run, a name has one document,
\* no persisted name is empty, and the document of a name holds exactly
\* what the latest capture under that name built, nothing of an older one
C4_LastWriteWins ==
    /\ \A f \in DOMAIN files : Stem(f) # <<>>
    /\ \A f \in DOMAIN captured :
          /\ f \in DOMAIN files
          /\ captured[f].name # <<>>
          /\ WorkspaceFile(captured[f].name) = f
          /\ files[f] = JsonDump(captured[f])
          /\ \A g \in DOMAIN captured :
                captured[g].name = captured[f].name => g = f

\* a second capture under a name has ended, the first one's document
\* replaced by one of a later time, another name's document kept
C4_Witness ==
    /\ pc = "done"
    /\ cmd = "save"
    /\ exitCode = 0
    /\ existed
    /\ WorkspaceFile(arg) \in DOMAIN captured
    /\ captured[WorkspaceFile(arg)].created = Isoformat(MaxTime)
    /\ Cardinality(DOMAIN captured) = 2

\* C5: a delete of a name that has no document leaves the store as it
\* was; a delete of a name that has one removes that document and leaves
\* every other document as it was
C5_DeleteFrame ==
    [][(pc = "idle" /\ pc' = "done" /\ cmd' = "delete") =>
         LET f == WorkspaceFile(arg')
         IN  IF f \in DOMAIN files
             THEN /\ DOMAIN files' = DOMAIN files \ {f}
                  /\ \A g \in DOMAIN files' : files'[g] = files[g]
             ELSE files' = files]_vars

\* a delete of a name that had a document has ended, and another document
\* is still in the store
C5_Witness ==
    /\ pc = "done"
    /\ cmd = "delete"
    /\ existed
    /\ WorkspaceFile(arg) \notin DOMAIN files
    /\ files # <<>>

\* C6: a restore or a delete of a name that has no document ends in an
\* outcome that differs from that of a successful one: a non-zero exit
\* status or an exception
C6_NotFoundIsDistinct ==
    (pc = "done" /\ cmd \in {"load", "delete"} /\ ~existed) =>
        exitCode # 0 \/ raised # "none"

\* the documents of the store that are JSON objects: what can be read as
\* a snapshot record, a field it lacks taking its default
WellFormed(fs) ==
    {f \in Glob(fs) : fs[f] # InvalidText /\ PyType(fs[f]) = "dict"}

\* C7: a listing ends with a result whatever corrupt documents are in the
\* store (texts that are not JSON, JSON that is no record): no corrupt
\* document is in it, and every well-formed document has exactly one
\* summary in it
C7_ListSkipsCorrupt ==
    (pc = "done" /\ cmd = "list") =>
        /\ raised = "none"
        /\ exitCode = 0
        /\ Len(listing) = Cardinality(WellFormed(files))
        /\ \A f \in WellFormed(files) :
              \E i \in DOMAIN listing :
                 listing[i].name = Get(JsonLoad(files[f]), "name", Stem(f))

\* C8: the summaries of a listing are ordered by created, newest first:
\* of two adjacent summaries the first one's created is not less than the
\* second's, a document without created counting as "Unknown"
C8_ListNewestFirst ==
    (pc = "done" /\ cmd = "list" /\ raised = "none") =>
        \A i \in 1..(Len(listing) - 1) :
            ~StrLess(listing[i].created, listing[i + 1].created)

\* a listing of two documents has ended, one of them without created
C8_Witness ==
    /\ pc = "done"
    /\ cmd = "list"
    /\ raised = "none"
    /\ Len(listing) = 2
    /\ \E i, j \in DOMAIN listing :
          /\ listing[i].created = S("Unknown")
          /\ listing[j].created \in {Isoformat(t) : t \in 1..MaxTime}

\* C9: a restore sends no command to the control plane unless the named
\* document exists and parses, and a restore of a document that exists and
\* does not parse ends in a failure the caller is told of
C9_CorruptLoadFails ==
    (pc = "done" /\ cmd = "load") =>
        /\ (\E i \in DOMAIN log : log[i].via \in {"adapter", "direct"}) =>
              /\ existed
              /\ files[WorkspaceFile(arg)] # InvalidText
        /\ (existed /\ files[WorkspaceFile(arg)] = InvalidText) =>
              /\ exitCode # 0
              /\ raised # "none"
              /\ log = <<>>

\* a restore of a document that is not JSON has ended with status 1
C9_Witness ==
    /\ pc = "done"
    /\ cmd = "load"
    /\ existed
    /\ files[WorkspaceFile(arg)] = InvalidText
    /\ exitCode = 1
    /\ raised = "JSONDecodeError"

\* C10: a capture under a name runs to its end whatever the control plane
\* answers: it persists a document under the name and ends with status 0
C10_CaptureNeverAborts ==
    (pc = "done" /\ cmd = "save" /\ arg # <<>>) =>
        /\ exitCode = 0
        /\ raised = "none"
        /\ WorkspaceFile(arg) \in DOMAIN captured

----------------------------------------------------------------------------
(* Properties of the content phase of restore.                             *)

\* the places in the log of the "Opening <app>..." lines, in order
OpeningPlaces ==
    LET places == {j \in DOMAIN log : log[j].cmd = "opening"}
    IN  [k \in 1..Cardinality(places) |->
            CHOOSE j \in places :
               Cardinality({m \in places : m <= j}) = k]

\* the place after the last entry of the content phase
ContentEnd ==
    IF \E j \in DOMAIN log : log[j].cmd \in GeometryCmds
    THEN CHOOSE j \in DOMAIN log :
            /\ log[j].cmd \in GeometryCmds
            /\ \A m \in 1..(j - 1) : log[m].cmd \notin GeometryCmds
    ELSE Len(log) + 1

\* what the content step of the k-th app sent
StepOf(k) ==
    SubSeq(log, OpeningPlaces[k] + 1,
           (IF k < Len(OpeningPlaces) THEN OpeningPlaces[k + 1]
            ELSE ContentEnd) - 1)

ScriptFor(r) ==
    <<[set |-> "position", to |-> <<r.x, r.y>>],
      [set |-> "size", to |-> <<r.width, r.height>>]>>

\* C12: the restore of a browser app closes all windows before it makes
\* any, then makes one window per recorded window in recorded order, each
\* seeded with the window's first URL and given its other URLs as tabs
\* in order; when the browser then has a live window, window 1 is later
\* positioned and sized from the first recorded rectangle
C12_BrowserWindowsInOrder ==
    (pc = "done" /\ cmd = "load" /\ existed /\ raised = "none") =>
        LET apps == Get(loaded, "apps", <<>>)
        IN  \A k \in DOMAIN apps :
               (apps[k].app = Safari /\ Get(apps[k], "windows", <<>>) # <<>>)
               => LET windows == apps[k].windows
                      step == StepOf(k)
                  IN  /\ Len(step) = 1 + Len(windows)
                      /\ step[1].cmd = "close_windows"
                      /\ \A i \in DOMAIN windows :
                            /\ step[i + 1].cmd = "make_document"
                            /\ step[i + 1].app = Safari
                            /\ step[i + 1].url = windows[i][1]
                            /\ step[i + 1].tabs = Tail(windows[i])
                      /\ \A q \in DOMAIN log :
                            (/\ log[q].cmd = "count_windows"
                             /\ log[q].app = Safari
                             /\ LiveCount(log[q].reply) >= 1)
                            => /\ q > ContentEnd - 1
                               /\ log[q + 1].cmd = "set_geometry"
                               /\ log[q + 1].index = 1
                               /\ log[q + 1].script =
                                     ScriptFor(apps[k].window_positions[1])

\* the snapshot with one window [a, b] and one rectangle has been restored
\* against a browser with one live window: one window made with a and the
\* tab b, then window 1 placed by that rectangle, and nothing after
C12_Witness ==
    /\ pc = "done"
    /\ cmd = "load"
    /\ existed
    /\ raised = "none"
    /\ Len(Get(loaded, "apps", <<>>)) = 1
    /\ loaded.apps[1].app = Safari
    /\ loaded.apps[1].windows =
          << <<S("https://a.com"), S("https://b.com")>> >>
    /\ Len(loaded.apps[1].window_positions) = 1
    /\ Len(log) = 5
    /\ log[2].cmd = "close_windows"
    /\ log[3].cmd = "make_document"
    /\ log[3].url = S("https://a.com")
    /\ log[3].tabs = <<S("https://b.com")>>
    /\ log[4].cmd = "count_windows"
    /\ LiveCount(log[4].reply) = 1
    /\ log[5].cmd = "set_geometry"
    /\ log[5].index = 1
    /\ log[5].script = ScriptFor(loaded.apps[1].window_positions[1])

\* a document named as the file of this path is among those the answer o
\* of the name query reports open
ReportedOpen(path, o) ==
    /\ o.how = "exit"
    /\ o.rc = 0
    /\ \E i \in DOMAIN o.stdout : o.stdout[i] = path[Len(path)]

\* the paths of the path conversions in the log, in order
ConvertedPaths ==
    LET hits == SelectSeq(log, LAMBDA e : e.cmd = "posix_path")
    IN  [i \in DOMAIN hits |-> hits[i].path]

\* the recorded paths of the documents of the snapshot read, in order
RecordedPaths ==
    LET documents == DocumentsOf(Get(loaded, "apps", <<>>))
    IN  [i \in DOMAIN documents |-> documents[i].path]

\* C13: the restore of a document editor app sends no open request for a
\* document whose file is not on disk or that is reported open under its
\* name, and a document skipped leaves every later document of the list
\* to be processed, in order
C13_NoOpenOfMissingOrOpen ==
    (pc = "done" /\ cmd = "load" /\ existed /\ raised = "none") =>
        /\ \A j \in DOMAIN log :
              log[j].cmd = "open" =>
                 /\ j > 2
                 /\ log[j - 2].cmd = "path_exists"
                 /\ log[j - 2].path = log[j].path
                 /\ log[j - 2].reply = TRUE
                 /\ log[j - 1].cmd = "document_names"
                 /\ ~ReportedOpen(log[j].path, log[j - 1].reply)
        /\ ConvertedPaths = RecordedPaths

\* a restore has skipped the first document, whose file is not on disk,
\* and opened the second
C13_Witness ==
    /\ pc = "done"
    /\ cmd = "load"
    /\ Len(ConvertedPaths) = 2
    /\ \E i, j \in DOMAIN log :
          /\ i < j
          /\ log[i].cmd = "path_exists"
          /\ log[i].reply = FALSE
          /\ log[j].cmd = "open"
          /\ log[j].path # log[i].path

\* C14: the restore of a document editor app sends an open request for
\* every recorded document whose file is on disk and whose name is not
\* among those reported open, whatever the list reported, the empty list
\* included
C14_OpensEveryClosedDocument ==
    (pc = "done" /\ cmd = "load" /\ existed /\ raised = "none") =>
        \A j \in DOMAIN log :
           (/\ log[j].cmd = "path_exists"
            /\ log[j].reply = TRUE
            /\ ~ReportedOpen(log[j].path, log[j + 1].reply))
           => /\ j + 2 \in DOMAIN log
              /\ log[j + 2].cmd = "open"
              /\ log[j + 2].path = log[j].path

----------------------------------------------------------------------------
(* Properties of the geometry phase of restore.                            *)

Min(a, b) == IF a <= b THEN a ELSE b

\* the recorded window_positions of the app named a in the snapshot read
PositionsOf(a) ==
    LET apps == Get(loaded, "apps", <<>>)
    IN  IF \E k \in DOMAIN apps : apps[k].app = a
        THEN Get(apps[CHOOSE k \in DOMAIN apps : apps[k].app = a],
                 "window_positions", <<>>)
        ELSE <<>>

\* C15: in the geometry phase each app with recorded positions gets, after
\* its count query, one attempt for each index 1..min(number of recorded
\* positions, live count) and for no other, in increasing order, each
\* setting the position and then the size recorded at that index; an app
\* without recorded positions gets no query and no attempt
C15_GeometryAttempts ==
    (pc = "done" /\ cmd = "load" /\ existed /\ raised = "none") =>
        /\ \A q \in DOMAIN log :
              log[q].cmd = "count_windows" =>
                 LET positions == PositionsOf(log[q].app)
                     n == Min(Len(positions), LiveCount(log[q].reply))
                 IN  /\ positions # <<>>
                     /\ \A i \in 1..n :
                           /\ q + i \in DOMAIN log
                           /\ log[q + i].cmd = "set_geometry"
                           /\ log[q + i].app = log[q].app
                           /\ log[q + i].index = i
                           /\ Len(log[q + i].script) = 2
                           /\ log[q + i].script[1] =
                                [set |-> "position",
                                 to |-> <<positions[i].x, positions[i].y>>]
                           /\ log[q + i].script[2] =
                                [set |-> "size",
                                 to |-> <<positions[i].width,
                                          positions[i].height>>]
                     /\ q + n + 1 \in DOMAIN log =>
                           log[q + n + 1].cmd # "set_geometry"
        /\ \A j \in DOMAIN log :
              log[j].cmd = "set_geometry" =>
                 /\ j > 1
                 /\ log[j - 1].cmd \in GeometryCmds
        /\ \A k \in DOMAIN Get(loaded, "apps", <<>>) :
              Get(loaded.apps[k], "window_positions", <<>>) = <<>> =>
                 \A j \in DOMAIN log :
                    log[j].cmd \in GeometryCmds =>
                       log[j].app # loaded.apps[k].app

\* a restore of an app without recorded positions and an app with two,
\* which has three live windows: windows 1 and 2 placed, in that order
C15_Witness ==
    /\ pc = "done"
    /\ cmd = "load"
    /\ existed
    /\ raised = "none"
    /\ Len(Get(loaded, "apps", <<>>)) = 2
    /\ loaded.apps[1].window_positions = <<>>
    /\ Len(loaded.apps[2].window_positions) = 2
    /\ Len(AppsOf("count_windows")) = 1
    /\ \E q \in DOMAIN log :
          /\ log[q].cmd = "count_windows"
          /\ LiveCount(log[q].reply) = 3
          /\ Len(log) = q + 2
          /\ log[q + 1].index = 1
          /\ log[q + 2].index = 2

----------------------------------------------------------------------------
(* Properties of the snapshot a capture builds (under SpecCapture).       *)

\* the capture of the state has run to its end
Captured == snapshot # Pending /\ snapshot.error = "none"

\* the tokens of a Safari result that are no URL
Separators == {":::", "|||", " ", "\n"}

\* the places of the URLs in the text the control plane gave for Safari
UrlPlaces ==
    LET text == answers.content[Safari].stdout
        places == {j \in DOMAIN text : text[j] \notin Separators}
    IN  [k \in 1..Cardinality(places) |->
            CHOOSE j \in places : Cardinality({m \in places : m <= j}) = k]

\* the tabs of these windows one after the other, each with the number of
\* its window
RECURSIVE Flat(_)
Flat(windows) ==
    IF windows = <<>> THEN <<>>
    ELSE LET n == Len(windows)
         IN  Flat(SubSeq(windows, 1, n - 1))
             \o [t \in DOMAIN windows[n] |-> [w |-> n, url |-> windows[n][t]]]

\* C16: in a captured snapshot every browser app has a windows sequence
\* whose entries are non-empty sequences of non-empty URLs: the URLs the
\* control plane reported, in its order, two of them in one window exactly
\* when it reported them in one window; a window with no tabs is no entry
C16_BrowserWindowsWellFormed ==
    Captured =>
        \A k \in DOMAIN snapshot.apps :
           snapshot.apps[k].type = S("browser") =>
              LET windows == snapshot.apps[k].windows
                  text == answers.content[Safari].stdout
                  flat == Flat(windows)
              IN  /\ \A i \in DOMAIN windows :
                        /\ windows[i] # <<>>
                        /\ \A t \in DOMAIN windows[i] :
                              /\ windows[i][t] # <<>>
                              /\ windows[i][t][1] \notin Separators
                  /\ Len(flat) = Len(UrlPlaces)
                  /\ \A n \in DOMAIN flat :
                        flat[n].url = S(text[UrlPlaces[n]])
                  /\ \A n \in 1..(Len(flat) - 1) :
                        (flat[n].w = flat[n + 1].w)
                        <=> (\A j \in UrlPlaces[n]..UrlPlaces[n + 1] :
                                text[j] # "|||")

\* a capture of a Safari that reported a blank tab and a window without
\* tabs has recorded two windows, of two tabs and of one
C16_Witness ==
    /\ Captured
    /\ answers.content[Safari] = Answer(SparseTabs)
    /\ \E k \in DOMAIN snapshot.apps :
          /\ snapshot.apps[k].type = S("browser")
          /\ Len(snapshot.apps[k].windows) = 2
          /\ Len(snapshot.apps[k].windows[1]) = 2
          /\ Len(snapshot.apps[k].windows[2]) = 1

\* C17: in a captured snapshot every entry of documents of a document
\* editor app has a path that is not empty, whatever the document query
\* answered
C17_DocumentsHavePaths ==
    Captured =>
        \A k \in DOMAIN snapshot.apps :
           snapshot.apps[k].type = S("document_editor") =>
              \A i \in DOMAIN snapshot.apps[k].documents :
                 /\ "path" \in DOMAIN snapshot.apps[k].documents[i]
                 /\ snapshot.apps[k].documents[i].path # <<>>

\* C18: in a captured snapshot every generic app has at least one window
\* rectangle: a running process without a capturer whose probe found no
\* window is not in the snapshot
C18_GenericHasWindows ==
    Captured =>
        \A k \in DOMAIN snapshot.apps :
           snapshot.apps[k].type = S("generic") =>
              snapshot.apps[k].window_positions # <<>>

\* the process list the control plane gave names the app a
ReportedRunning(a) ==
    /\ answers.running.how = "exit"
    /\ answers.running.rc = 0
    /\ \E j \in DOMAIN answers.running.stdout :
          answers.running.stdout[j] = a[1]

\* a capture with Notes running and no window of it found has ended, and
\* Notes is not in the snapshot
C18_Witness ==
    /\ Captured
    /\ ReportedRunning(Notes)
    /\ answers.probe[Notes] \in {NoWindows, ZeroWindows}
    /\ \A k \in DOMAIN snapshot.apps : snapshot.apps[k].app # Notes
    /\ snapshot.apps # <<>>

\* C19: a captured snapshot holds an app of one of the four capturers
\* only if the process list of the capture named that application
C19_CapturedOnlyIfRunning ==
    Captured =>
        \A k \in DOMAIN snapshot.apps :
           snapshot.apps[k].app \in Range(app_capturers) =>
              ReportedRunning(snapshot.apps[k].app)

\* a capture has ended without Logos, which its own query found running
\* and the process list did not name, and with another app
C19_Witness ==
    /\ Captured
    /\ answers.content[Logos] = Answer(S("running"))
    /\ ~ReportedRunning(Logos)
    /\ \A k \in DOMAIN snapshot.apps : snapshot.apps[k].app # Logos
    /\ \E k \in DOMAIN snapshot.apps :
          snapshot.apps[k].app \in Range(app_capturers)

----------------------------------------------------------------------------
(* The menu bar shell (src/src/workspace_menubar_wrapper.py).  A menu      *)
(* callback runs on the main thread.  Those of load and save start a       *)
(* daemon thread; the thread runs the engine as a subprocess through       *)
(* run_command and then notifies.  A worker is [op, name, pc]: "started"   *)
(* before run_command, "running" while the engine process runs, "done"     *)
(* after it.  The callback of delete runs the engine itself and waits for  *)
(* it: pc is "done" from the end of that run until the callback returns.   *)

\* the threads one session of the shell starts
MaxWorkers == 3

InitShell ==
    /\ files = [f \in {WorkspaceFile(name) : name \in Names} |->
                   JsonDump(WorkspaceData(Stem(f), 1, <<>>))]
    /\ captured = <<>>
    /\ pc = "idle"
    /\ cmd = "none"
    /\ arg = <<>>
    /\ existed = FALSE
    /\ exitCode = 0
    /\ raised = "none"
    /\ printed = <<>>
    /\ log = <<>>
    /\ loaded = <<>>
    /\ listing = <<>>
    /\ answers = <<>>
    /\ snapshot = <<>>
    /\ workers = <<>>

\* threading.Thread(target=..., daemon=True).start()
StartThread(op, name) ==
    /\ Len(workers) < MaxWorkers
    /\ workers' = Append(workers, [op |-> op, name |-> name, pc |-> "started"])
    /\ UNCHANGED <<files, captured, pc, cmd, arg, existed, exitCode, raised,
                   printed, log, loaded, listing, answers, snapshot>>

\* load_workspace_background: the callback of an item of "Load Workspace"
load_workspace_background(name) == StartThread("load", name)

\* save_workspace: the callback of "Save Current Workspace", a name given
save_workspace(name) == StartThread("save", name)

\* worker i moves from pc from to pc to, the store becoming fs
Step(i, from, to, fs) ==
    /\ workers[i].pc = from
    /\ workers' = [workers EXCEPT ![i].pc = to]
    /\ files' = fs
    /\ UNCHANGED <<captured, pc, cmd, arg, existed, exitCode, raised,
                   printed, log, loaded, listing, answers, snapshot>>

\* run_command: subprocess.run starts the engine
run_command(i) == Step(i, "started", "running", files)

\* the engine process ends, or the 60 s of run_command pass: a save that
\* went well has written its document
Returned(i, success) ==
    Step(i, "running", "done",
         IF workers[i].op = "save" /\ success
         THEN WriteFile(files, WorkspaceFile(workers[i].name),
                        JsonDump(WorkspaceData(workers[i].name, 1, <<>>)))
         ELSE files)

\* run_command(["delete", name]): the delete branch of main() with the
\* standard input the engine process inherits from the shell, which is at
\* its end ("eof"), gives no line within the 60 s ("silent"), or gives a
\* line: [success, raised, files]
run_delete(fs, name, stdin) ==
    IF stdin.how = "eof"
    THEN [success |-> FALSE, raised |-> "EOFError", files |-> fs]
    ELSE IF stdin.how = "silent"
    THEN [success |-> FALSE, raised |-> "TimeoutExpired", files |-> fs]
    ELSE IF Lower(stdin.line) = S("y")
    THEN [success |-> TRUE, raised |-> "none",
          files |-> delete_workspace(fs, name).files]
    ELSE [success |-> TRUE, raised |-> "none", files |-> fs]

\* delete_workspace of the shell, the name typed being one of the listing
\* and the alert answered with Delete, up to the end of run_command
ShellDelete(name, stdin) ==
    /\ pc = "idle"
    /\ \E order \in Orders(Glob(files)) :
       \E workspaces \in {list_workspaces(files, order)} :
          /\ workspaces.error = "none"
          /\ \E k \in DOMAIN workspaces.value :
                workspaces.value[k].name = name
    /\ \E r \in {run_delete(files, name, stdin)} :
          /\ pc' = "done"
          /\ cmd' = "delete"
          /\ arg' = name
          /\ existed' = Exists(files, WorkspaceFile(name))
          /\ exitCode' = IF r.success THEN 0 ELSE 1
          /\ raised' = r.raised
          /\ files' = r.files
    /\ UNCHANGED <<captured, printed, log, loaded, listing, answers,
                   snapshot, workers>>

NextShell ==
    \/ \E name \in Names : load_workspace_background(name)
    \/ \E name \in Names : save_workspace(name)
    \/ \E i \in DOMAIN workers : run_command(i)
    \/ \E i \in DOMAIN workers, success \in BOOLEAN : Returned(i, success)
    \/ \E name \in Names :
       \E stdin \in {[how |-> "eof", line |-> <<>>],
                     [how |-> "silent", line |-> <<>>]}
                    \cup {[how |-> "line", line |-> t] : t \in TypedConfirms} :
          ShellDelete(name, stdin)
    \/ Exit

SpecShell == InitShell /\ [][NextShell]_vars

\* C20: the capture and restore requests of the shell's worker threads
\* are serialized: at most one engine operation is running at any time
C20_OneEngineOperation ==
    Cardinality({i \in DOMAIN workers : workers[i].pc = "running"}) <= 1

----------------------------------------------------------------------------
(* The two passes of restore_workspace on their own, over any snapshot a   *)
(* document of the store may hold: the entries the capturers build, and    *)
(* the same entries under another app or type (a document edited by hand   *)
(* or written by another program).                                         *)

\* the dict capture_safari_data returns
SafariEntry ==
    [app |-> Safari, type |-> S("browser"),
     windows |-> << <<S("https://a.com"), S("https://b.com")>> >>,
     window_positions |-> <<[x |-> 40, y |-> 40, width |-> 800,
                             height |-> 600]>>]

\* the dict capture_word_data returns
WordEntry ==
    [app |-> Word, type |-> S("document_editor"),
     documents |-> <<[name |-> S("a.docx"),
                      path |-> <<"Mac:docs:", "a.docx">>]>>,
     window_positions |-> <<>>]

\* the dict capture_logos_data returns
LogosEntry ==
    [app |-> Logos, type |-> S("bible_software"),
     current_layout |-> S("Study"), window_positions |-> <<>>]

\* the dict capture_zotero_data returns
ZoteroEntry ==
    [app |-> Zotero, type |-> S("reference_manager"),
     window_positions |-> <<>>]

\* basic_data of the second loop of capture_workspace
NotesEntry ==
    [app |-> Notes, type |-> S("generic"),
     window_positions |-> <<[x |-> 40, y |-> 40, width |-> 800,
                             height |-> 600]>>]

\* workspace_data as json.load gives it: one or two entries under "apps",
\* each an entry of a capturer or one with its app or its type replaced
AnySnapshots ==
    LET entries ==
            {SafariEntry, WordEntry, LogosEntry, ZoteroEntry, NotesEntry,
             [SafariEntry EXCEPT !.app = Notes],
             [WordEntry EXCEPT !.app = Notes],
             [LogosEntry EXCEPT !.app = Notes],
             [ZoteroEntry EXCEPT !.app = Notes],
             [SafariEntry EXCEPT !.type = S("generic")],
             [NotesEntry EXCEPT !.type = S("browser")]}
    IN  {[name |-> S("w1"), created |-> Isoformat(1), apps |-> apps] :
            apps \in {<<a>> : a \in entries}
                     \cup {<<a, b>> : a \in entries,
                                      b \in {NotesEntry, WordEntry}}}

InitRestore ==
    /\ files = <<>>
    /\ captured = <<>>
    /\ pc = "idle"
    /\ cmd = "none"
    /\ arg = <<>>
    /\ existed = FALSE
    /\ exitCode = 0
    /\ raised = "none"
    /\ printed = <<>>
    /\ log = <<>>
    /\ loaded \in AnySnapshots
    /\ listing = <<>>
    /\ answers \in {rp \in RestoreAnswers(loaded.apps) :
                       \A k \in DOMAIN loaded.apps :
                          rp.counts[k] \in {Answer(CountText(1)), Timeout}}
    /\ snapshot = <<>>
    /\ workers = <<>>

\* lines 579-615 of restore_workspace on the workspace_data of the state,
\* lg being the commands they send
RestoreAlone(lg) ==
    /\ pc = "idle"
    /\ pc' = "done"
    /\ log' = lg
    /\ UNCHANGED <<files, captured, cmd, arg, existed, exitCode, raised,
                   printed, loaded, listing, answers, snapshot, workers>>

NextRestore ==
    \E lg \in {BothPasses(Get(loaded, "apps", <<>>), answers)} :
        RestoreAlone(lg)

SpecRestore == InitRestore /\ [][NextRestore]_vars

\* C21: the content step of every entry of a snapshot is the one of its
\* type: the browser steps for browser, the document steps for
\* document_editor, the layout steps for bible_software, and for any other
\* type one activation of the process named by the entry, whatever its app
C21_DispatchOnType ==
    pc = "done" =>
        \A k \in DOMAIN loaded.apps :
            LET a == loaded.apps[k]
                type == Get(a, "type", S("generic"))
            IN  StepOf(k) =
                    IF type = S("browser") THEN restore_safari(a)
                    ELSE IF type = S("document_editor")
                    THEN restore_word(a, answers.docs)
                    ELSE IF type = S("bible_software") THEN restore_logos(a)
                    ELSE <<Activate(a.app)>>

----------------------------------------------------------------------------
(* Properties of the store under restore and list.                         *)

\* C22: a restore or a list, the selection of a workspace by number
\* included, leaves every document of the store as it was, whatever the
\* control plane answers and whatever the documents hold
C22_RestoreAndListFrame ==
    [][(pc = "idle" /\ pc' = "done" /\ cmd' \in {"load", "list", "select"})
          => files' = files]_vars

\* a restore that sent commands has ended with two documents in the store,
\* one of them not a snapshot
C22_Witness ==
    /\ pc = "done"
    /\ cmd = "load"
    /\ existed
    /\ log # <<>>
    /\ Cardinality(DOMAIN files) = 2
    /\ \E f \in DOMAIN files : files[f] = InvalidText

----------------------------------------------------------------------------
(* get_window_positions on its own, under any answers of the control       *)
(* plane to its count query and to its per-window queries.                 *)

\* answers to one window_script: no answer, and results that are well
\* formed, an error tag, with an infinite field, a negative width, three
\* fields, five fields, a word for a field, a fraction and stray blanks
WindowAnswers ==
    {Timeout, Failure}
    \cup {Answer(t) :
            t \in {JoinedRect, PlainRect, ErrorResult, InfiniteRect,
                   <<"40", ",", "40", ",", "-5", ",", "600">>,
                   <<"40", ",", "40", ",", "800">>,
                   <<"40", ",", "40", ",", "800", ",", "600", ",", "1">>,
                   <<"40", ",", "abc", ",", "800", ",", "600">>,
                   <<"10.7", ",", "40", ",", "800", ",", " ", "600",
                     "\n">>}}

\* answers to one probe: a count that fails, is no integer, is negative,
\* or is n with an answer for each of the n windows
AnyProbes ==
    [count : {Timeout, Failure, Answer(S("abc")), Answer(S("-5"))},
     wins : {<<>>}]
    \cup UNION {[count : {Answer(CountText(n)), Answer(CountText(n) \o <<"\n">>)},
                 wins : [1..n -> WindowAnswers]] : n \in 0..MaxCount}

InitProbe ==
    /\ files = <<>>
    /\ captured = <<>>
    /\ pc = "idle"
    /\ cmd = "none"
    /\ arg = <<>>
    /\ existed = FALSE
    /\ exitCode = 0
    /\ raised = "none"
    /\ printed = <<>>
    /\ log = <<>>
    /\ loaded = <<>>
    /\ listing = <<>>
    /\ answers \in AnyProbes
    /\ snapshot = Pending
    /\ workers = <<>>

\* get_window_positions under the answers of the state, r being how it
\* ends
ProbeAlone(r) ==
    /\ snapshot = Pending
    /\ snapshot' = r
    /\ UNCHANGED <<files, captured, pc, cmd, arg, existed, exitCode, raised,
                   printed, log, loaded, listing, answers, workers>>

NextProbe == \E r \in {get_window_positions(answers)} : ProbeAlone(r)

SpecProbe == InitProbe /\ [][NextProbe]_vars

\* what the adapter returns for the window_script of index i
ResultOf(i) == run_applescript(answers.wins[i])

\* the indices among 1..n whose result gives a WindowRect, in order
Contributing(n) ==
    SelectSeq([i \in 1..n |-> i],
              LAMBDA i : ParseWindow(ResultOf(i)).rects # <<>>)

\* C23: a probe whose count query fails or gives no integer runs no
\* window_script and returns the empty list; any other probe returns, has
\* run one window_script for each index 1..count in increasing order whatever
\* the earlier results were, and returns the WindowRects of the indices
\* whose result gave one, in that order, so never more than count of them
C23_ProbeQueries ==
    snapshot # Pending =>
        LET window_count_result == run_applescript(answers.count)
            n == ParseInt(window_count_result)
        IN  /\ snapshot.error = "none"
            /\ IF window_count_result = <<>> \/ ~n.ok
               THEN snapshot.queried = <<>> /\ snapshot.value = <<>>
               ELSE /\ snapshot.queried = [i \in 1..n.value |-> i]
                    /\ snapshot.value =
                          [k \in DOMAIN Contributing(n.value) |->
                              ParseWindow(ResultOf(Contributing(n.value)[k]))
                                 .rects[1]]
                    /\ Len(snapshot.value) <= Len(snapshot.queried)

\* C24: every WindowRect a probe returns has a width and a height that are
\* non-negative integers
C24_SizesNonNegative ==
    snapshot # Pending =>
        \A k \in DOMAIN snapshot.value :
            /\ snapshot.value[k].width \in Nat
            /\ snapshot.value[k].height \in Nat

\* a result that resolves to exactly four numbers: four fields after the
\* delimiters are normalised, each a decimal literal
FourNumbers(result) ==
    LET coords == Coords(result)
    IN  /\ Len(coords) = 4
        /\ \A i \in 1..4 :
              /\ Len(coords[i]) = 1
              /\ coords[i][1] \in DOMAIN IntLiteral \cup DOMAIN FloatLiteral

\* C25: a probe that got, for some of the indices it queried, a result that
\* does not resolve to exactly four numbers still returns, and returns no
\* WindowRect for those indices
C25_MalformedSkipped ==
    snapshot # Pending =>
        LET bad == {i \in Range(snapshot.queried) :
                       ResultOf(i) # <<>> /\ ~FourNumbers(ResultOf(i))}
        IN  bad # {} =>
              /\ snapshot.error = "none"
              /\ Len(snapshot.value)
                    <= Len(snapshot.queried) - Cardinality(bad)

----------------------------------------------------------------------------
(* run_applescript on its own.  answers[k] is how the k-th run of the      *)
(* interpreter would end if it were made: it exits, it runs over the time  *)
(* limit, or it cannot be started ("oserror").                             *)

InitAdapter ==
    /\ files = <<>>
    /\ captured = <<>>
    /\ pc = "idle"
    /\ cmd = "none"
    /\ arg = <<>>
    /\ existed = FALSE
    /\ exitCode = 0
    /\ raised = "none"
    /\ printed = <<>>
    /\ log = <<>>
    /\ loaded = <<>>
    /\ listing = <<>>
    /\ answers \in [1..2 ->
                      {Answer(<<>>), Answer(<<"\n">>),
                       Answer(<<" ", "1", "\n">>), Answer(JoinedRect),
                       [how |-> "exit", rc |-> 1, stdout |-> <<"1", "\n">>],
                       Failure, Timeout,
                       [how |-> "oserror", rc |-> 0, stdout |-> <<>>]}]
    /\ snapshot = Pending
    /\ workers = <<>>

\* runs that go on to a second one when the first gave no output
RunsUntilAnswered(outcomes) ==
    IF run_applescript(outcomes[1]) = <<>>
    THEN <<outcomes[1], outcomes[2]>>
    ELSE <<outcomes[1]>>

\* the runs of the interpreter one call of run_applescript makes: the one
\* subprocess.run of its try block
Runs(outcomes) == <<outcomes[1]>>

\* one call of run_applescript: sent holds the runs made, error the
\* exception that leaves the call, value what it returns
AdapterAlone(sent) ==
    /\ snapshot = Pending
    /\ snapshot' = [sent |-> sent, error |-> "none",
                    value |-> run_applescript(sent[Len(sent)])]
    /\ UNCHANGED <<files, captured, pc, cmd, arg, existed, exitCode, raised,
                   printed, log, loaded, listing, answers, workers>>

NextAdapter == \E sent \in {Runs(answers)} : AdapterAlone(sent)

SpecAdapter == InitAdapter /\ [][NextAdapter]_vars

\* C26: a call of run_applescript runs the interpreter once and no more,
\* whatever that run comes to; it raises nothing; it returns the standard
\* output without the blanks around it when the run exits with status 0,
\* and the empty string when the run exits with another status, runs over
\* the time limit or cannot be started
C26_ExecuteOnce ==
    snapshot # Pending =>
        LET o == answers[1]
        IN  /\ snapshot.sent = <<o>>
            /\ snapshot.error = "none"
            /\ IF o.how = "exit" /\ o.rc = 0
               THEN /\ \E i, j \in 0..Len(o.stdout) :
                          /\ snapshot.value = SubSeq(o.stdout, i + 1, j)
                          /\ \A k \in (1..i) \cup ((j + 1)..Len(o.stdout)) :
                                o.stdout[k] \in Blank
                    /\ snapshot.value # <<>> =>
                          /\ Head(snapshot.value) \notin Blank
                          /\ snapshot.value[Len(snapshot.value)] \notin Blank
               ELSE snapshot.value = <<>>

\* a call whose run was not answered in time has returned the empty string
\* after that one run, though a second run would have been answered
C26_Witness ==
    /\ snapshot # Pending
    /\ answers[1] = Timeout
    /\ answers[2] = Answer(<<" ", "1", "\n">>)
    /\ snapshot.sent = <<Timeout>>
    /\ snapshot.value = <<>>

----------------------------------------------------------------------------
(* Properties of the calls to the control plane.                           *)

\* C27: every command a capture or a restore sends to the control plane is
\* sent through run_applescript, under its time limit, so that a command
\* that is never answered is given up and the operation goes on
C27_AllCallsThroughAdapter ==
    \A j \in DOMAIN log :
        log[j].via \notin {"print", "os"} => log[j].via = "adapter"

----------------------------------------------------------------------------
(* Properties tying capture to the dispatch of restore (under              *)
(* SpecCapture).                                                           *)

\* the type every entry of a capturer has, by its app
TypeOf ==
    (Safari :> S("browser")) @@ (Word :> S("document_editor"))
    @@ (Logos :> S("bible_software")) @@ (Zotero :> S("reference_manager"))

\* answers for the documents of an entry: each path converted, each file
\* on disk, no document open
Closed(a) ==
    LET documents == Get(a, "documents", <<>>)
    IN  [i \in DOMAIN documents |->
            [posix |-> Answer(PosixPath(documents[i].path) \o <<"\n">>),
             on_disk |-> TRUE, names |-> Answer(<<"\n">>)]]

\* C28: in a captured snapshot the app of an entry fixes its type and the
\* type its app (Safari and browser, Microsoft Word and document_editor,
\* Logos and bible_software, Zotero and reference_manager, any other app
\* and generic); no generic entry is named Finder or System Events; the
\* entries of the capturers come before the generic ones; so the content
\* step restore selects by the app of an entry is the one of its type
C28_AppAndTypeAgree ==
    Captured =>
        \A k \in DOMAIN snapshot.apps :
            LET a == snapshot.apps[k]
            IN  /\ a.app \in DOMAIN TypeOf => a.type = TypeOf[a.app]
                /\ a.app \notin DOMAIN TypeOf => a.type = S("generic")
                /\ \A n \in DOMAIN TypeOf : a.type = TypeOf[n] => a.app = n
                /\ a.type = S("generic") =>
                      a.app \notin DOMAIN TypeOf \cup {Finder, SystemEvents}
                /\ \A j \in 1..(k - 1) :
                      snapshot.apps[j].type = S("generic") =>
                         a.type = S("generic")
                /\ OpenApp(a, Closed(a)) =
                      IF a.type = S("browser") THEN restore_safari(a)
                      ELSE IF a.type = S("document_editor")
                      THEN restore_word(a, Closed(a))
                      ELSE IF a.type = S("bible_software")
                      THEN restore_logos(a)
                      ELSE <<Activate(a.app)>>

\* a capture with Microsoft Word, Finder and Notes running has ended with
\* an entry for Word, then one for Notes, and none for Finder
C28_Witness ==
    /\ Captured
    /\ ReportedRunning(Finder)
    /\ Len(snapshot.apps) = 2
    /\ snapshot.apps[1].app = Word
    /\ snapshot.apps[1].documents # <<>>
    /\ snapshot.apps[2].app = Notes

----------------------------------------------------------------------------
(* Properties of the delete of the menu bar shell (under SpecShell).       *)

\* C29: a delete the user confirmed in the shell for a name of the listing
\* ends with the document of that name gone from the store: the engine run
\* it starts needs no confirmation of its own
C29_ConfirmedDeleteRemoves ==
    [][(pc = "idle" /\ pc' = "done" /\ cmd' = "delete") =>
          WorkspaceFile(arg') \notin DOMAIN files']_vars

============================================================================
